---------------------------- MODULE Spec2Model ----------------------------
(***************************************************************************)
(* A model of the otters streaming pipeline: the Pipeline object and its   *)
(* run() (src/src/pipeline.rs), the row batcher (src/src/batcher.rs), the  *)
(* parquet source and sink, and the four built-in operators                *)
(* (src/src/builtins).                                                     *)
(*                                                                         *)
(* Threads are modelled at the granularity of their blocking points: a     *)
(* channel send, a channel receive, an acquisition of the host-runtime     *)
(* lock (the GIL) and a thread join are each the start of one step.        *)
(***************************************************************************)
EXTENDS Integers, Sequences, FiniteSets, TLC

(***************************************************************************)
(* Bounds of the model.                                                    *)
(***************************************************************************)
\* longest stage list registered before a run
MaxStages == 3
\* most rows a source yields in one run
MaxRows == 3
\* most rows a source yields in one run of the backpressure specification
MaxFlowRows == 5
\* largest channel capacity a pipeline is constructed with
MaxCapacity == 1
\* largest batch size a pipeline is constructed with
MaxBatchSize == 2

(***************************************************************************)
(* f64 values.  A finite value is an exact fraction <<n, d>> in lowest     *)
(* terms with d > 0; NaN is <<0, 0>>.  The values the model feeds in are   *)
(* small integers, for which f64 arithmetic is exact.                      *)
(***************************************************************************)
NaN == <<0, 0>>

F(i) == <<i, 1>>

IsNaN(x) == x[2] = 0

Abs(i) == IF i < 0 THEN -i ELSE i

RECURSIVE GCD(_, _)
GCD(a, b) == IF b = 0 THEN a ELSE GCD(b, a % b)

\* the fraction n/d (d # 0) in lowest terms
Frac(n, d) ==
    LET g == GCD(Abs(n), Abs(d))
        s == IF d < 0 THEN -1 ELSE 1
    IN  <<(s * n) \div g, (s * d) \div g>>

FAdd(x, y) == IF IsNaN(x) \/ IsNaN(y) THEN NaN
              ELSE Frac(x[1] * y[2] + y[1] * x[2], x[2] * y[2])

FSub(x, y) == IF IsNaN(x) \/ IsNaN(y) THEN NaN
              ELSE Frac(x[1] * y[2] - y[1] * x[2], x[2] * y[2])

FMul(x, y) == IF IsNaN(x) \/ IsNaN(y) THEN NaN
              ELSE Frac(x[1] * y[1], x[2] * y[2])

\* x / y; 0.0 / 0.0 is NaN.  A nonzero value is never divided by zero in
\* the operators below when their inputs are finite.
FDiv(x, y) == IF IsNaN(x) \/ IsNaN(y) \/ y[1] = 0 THEN NaN
              ELSE Frac(x[1] * y[2], x[2] * y[1])

RECURSIVE FSum(_)
FSum(s) == IF s = <<>> THEN F(0) ELSE FAdd(Head(s), FSum(Tail(s)))

(***************************************************************************)
(* Record batches: a schema (fields in positional order) and one column    *)
(* of values per field.  arrow's Schema puts no constraint on field names. *)
(***************************************************************************)
Field(name, type, nullable) == [name |-> name, type |-> type, nullable |-> nullable]

NumRows(batch) == IF batch.columns = <<>> THEN 0 ELSE Len(batch.columns[1])

\* Schema::index_of: the position of the first field of that name, 0 if none
IndexOf(schema, name) ==
    IF \E i \in 1..Len(schema) : schema[i].name = name
    THEN CHOOSE i \in 1..Len(schema) :
            /\ schema[i].name = name
            /\ \A j \in 1..(i - 1) : schema[j].name # name
    ELSE 0

\* the input column an operator reads: present and of type f64, or a panic
ColumnOk(batch, name) ==
    /\ IndexOf(batch.schema, name) # 0
    /\ batch.schema[IndexOf(batch.schema, name)].type = "f64"

ColumnValues(batch, name) == batch.columns[IndexOf(batch.schema, name)]


(***************************************************************************)
(* Built-in operators.  An operator is a record of its parameters and its  *)
(* window state; process() returns ok = FALSE where the code panics.       *)
(***************************************************************************)
NoHistory == <<>>

\* Option<f64>: None is <<>>, Some(x) is <<x>>
None == <<>>

Some(x) == <<x>>

Operator(kind, column, volume_col, window) ==
    [kind |-> kind, column |-> column, volume_col |-> volume_col,
     window |-> window, history |-> NoHistory, sum |-> F(0), current |-> None]

RollingMeanNew(column, window) == Operator("RollingMean", column, "", window)

EmaNew(column, span) == Operator("Ema", column, "", span)

ZScoreNew(column, lookback) == Operator("ZScore", column, "", lookback)

VwapNew(price_col, volume_col, window) == Operator("Vwap", price_col, volume_col, window)

Panicked(op, batch) == [ok |-> FALSE, op |-> op, batch |-> batch]

\* a faulty append_column, which puts the new field first
append_column_first(batch, values, name) ==
    [schema  |-> <<Field(name, "f64", TRUE)>> \o batch.schema,
     columns |-> <<values>> \o batch.columns]

\* append_column: the input fields and columns, then one nullable f64 field
append_column(batch, values, name) ==
    [schema  |-> Append(batch.schema, Field(name, "f64", TRUE)),
     columns |-> Append(batch.columns, values)]

RollingMeanName(op) == op.column \o "_rolling_mean_" \o ToString(op.window)

EmaName(op) == op.column \o "_ema_" \o ToString(op.window)

ZScoreName(op) == op.column \o "_zscore_" \o ToString(op.window)

VwapName(op) == "vwap_" \o ToString(op.window)

\* one iteration of RollingMean's loop over the column's values
RollingMeanStepEager(op, val) ==
    LET pushed == Append(op.history, val)
        added  == FAdd(op.sum, val)
        over   == Len(pushed) > op.window
        hist   == IF over THEN Tail(pushed) ELSE pushed
        sum    == IF over THEN FSub(added, Head(pushed)) ELSE added
    IN  [op  |-> [op EXCEPT !.history = hist, !.sum = sum],
         out |-> FDiv(sum, F(op.window))]

RollingMeanStep(op, val) ==
    LET pushed == Append(op.history, val)
        added  == FAdd(op.sum, val)
        over   == Len(pushed) > op.window
        hist   == IF over THEN Tail(pushed) ELSE pushed
        sum    == IF over THEN FSub(added, Head(pushed)) ELSE added
    IN  [op  |-> [op EXCEPT !.history = hist, !.sum = sum],
         out |-> IF Len(hist) = op.window THEN FDiv(sum, F(op.window)) ELSE NaN]

\* a faulty iteration, which seeds on every value
EmaStepReseed(op, val) == [op |-> [op EXCEPT !.current = Some(val)], out |-> val]

\* one iteration of Ema's loop: the first value seeds, later ones are smoothed
EmaStep(op, val) ==
    LET alpha == FDiv(F(2), F(op.window + 1))
        ema   == IF op.current = None THEN val
                 ELSE FAdd(FMul(alpha, val),
                           FMul(FSub(F(1), alpha), op.current[1]))
    IN  [op |-> [op EXCEPT !.current = Some(ema)], out |-> ema]

RECURSIVE FSumSq(_, _)
FSumSq(s, mean) ==
    IF s = <<>> THEN F(0)
    ELSE FAdd(FMul(FSub(Head(s), mean), FSub(Head(s), mean)), FSumSq(Tail(s), mean))

IsSquare(n) == \E r \in 0..n : r * r = n

Root(n) == CHOOSE r \in 0..n : r * r = n

\* (val - mean) / sqrt(variance) for variance > 0: exact when the quotient
\* of the squares is a square of a fraction, else the triple
\* <<sign, n, d>> standing for sign * sqrt(n / d)
ZQuotient(diff, variance) ==
    LET q == FDiv(FMul(diff, diff), variance)
        s == IF diff[1] < 0 THEN -1 ELSE 1
    IN  IF IsNaN(q) THEN NaN
        ELSE IF IsSquare(q[1]) /\ IsSquare(q[2]) THEN Frac(s * Root(q[1]), Root(q[2]))
        ELSE <<s, q[1], q[2]>>

\* one iteration of ZScore's loop
ZScoreStep(op, val) ==
    LET pushed   == Append(op.history, val)
        hist     == IF Len(pushed) > op.window THEN Tail(pushed) ELSE pushed
        mean     == FDiv(FSum(hist), F(op.window))
        variance == FDiv(FSumSq(hist, mean), F(op.window - 1))
        \* std == 0.0 is false for a NaN std
        zero     == ~IsNaN(variance) /\ variance[1] = 0
    IN  [op  |-> [op EXCEPT !.history = hist],
         out |-> IF Len(hist) < op.window THEN NaN
                 ELSE IF zero THEN F(0)
                 ELSE ZQuotient(FSub(val, mean), variance)]

RECURSIVE PairSum(_, _)
PairSum(s, i) == IF s = <<>> THEN F(0) ELSE FAdd(Head(s)[i], PairSum(Tail(s), i))

\* one iteration of Vwap's loop over the zipped price and volume values
VwapStep(op, price, volume) ==
    LET pushed == Append(op.history, <<FMul(price, volume), volume>>)
        hist   == IF Len(pushed) > op.window THEN Tail(pushed) ELSE pushed
        pv_sum == PairSum(hist, 1)
        v_sum  == PairSum(hist, 2)
    IN  [op  |-> [op EXCEPT !.history = hist],
         out |-> IF Len(hist) < op.window THEN NaN
                 ELSE IF ~IsNaN(v_sum) /\ v_sum[1] = 0 THEN NaN
                 ELSE FDiv(pv_sum, v_sum)]

\* the loop of an operator over its input values, carrying the state along
RECURSIVE OpLoop(_, _, _, _)
OpLoop(op, vals, vols, out) ==
    IF vals = <<>> \/ (op.kind = "Vwap" /\ vols = <<>>) THEN [op |-> op, out |-> out]
    ELSE LET r == CASE op.kind = "RollingMean" -> RollingMeanStep(op, Head(vals))
                    [] op.kind = "Ema"         -> EmaStep(op, Head(vals))
                    [] op.kind = "ZScore"      -> ZScoreStep(op, Head(vals))
                    [] op.kind = "Vwap"        -> VwapStep(op, Head(vals), Head(vols))
         IN  OpLoop(r.op, Tail(vals), IF vols = <<>> THEN vols ELSE Tail(vols),
                    Append(out, r.out))

RollingMeanProcess(op, batch) ==
    IF ~ColumnOk(batch, op.column) THEN Panicked(op, batch)
    ELSE LET r == OpLoop(op, ColumnValues(batch, op.column), <<>>, <<>>)
         IN  [ok |-> TRUE, op |-> r.op,
              batch |-> [schema  |-> Append(batch.schema,
                                            Field(RollingMeanName(op), "f64", TRUE)),
                         columns |-> Append(batch.columns, r.out)]]

EmaProcess(op, batch) ==
    IF ~ColumnOk(batch, op.column) THEN Panicked(op, batch)
    ELSE LET r == OpLoop(op, ColumnValues(batch, op.column), <<>>, <<>>)
         IN  [ok |-> TRUE, op |-> r.op,
              batch |-> append_column(batch, r.out, EmaName(op))]

ZScoreProcess(op, batch) ==
    IF ~ColumnOk(batch, op.column) THEN Panicked(op, batch)
    ELSE LET r == OpLoop(op, ColumnValues(batch, op.column), <<>>, <<>>)
         IN  [ok |-> TRUE, op |-> r.op,
              batch |-> append_column(batch, r.out, ZScoreName(op))]

VwapProcess(op, batch) ==
    IF ~ColumnOk(batch, op.column) \/ ~ColumnOk(batch, op.volume_col)
    THEN Panicked(op, batch)
    ELSE LET r == OpLoop(op, ColumnValues(batch, op.column),
                         ColumnValues(batch, op.volume_col), <<>>)
         IN  [ok |-> TRUE, op |-> r.op,
              batch |-> append_column(batch, r.out, VwapName(op))]

\* a faulty process, which leaves the window state as it was before the batch
process_forgetful(op, batch) ==
    [(CASE op.kind = "RollingMean" -> RollingMeanProcess(op, batch)
        [] op.kind = "Ema"         -> EmaProcess(op, batch)
        [] op.kind = "ZScore"      -> ZScoreProcess(op, batch)
        [] op.kind = "Vwap"        -> VwapProcess(op, batch)) EXCEPT !.op = op]

\* ComputeStage::process, dispatched on the operator behind the Box<dyn>
process(op, batch) ==
    CASE op.kind = "RollingMean" -> RollingMeanProcess(op, batch)
      [] op.kind = "Ema"         -> EmaProcess(op, batch)
      [] op.kind = "ZScore"      -> ZScoreProcess(op, batch)
      [] op.kind = "Vwap"        -> VwapProcess(op, batch)

(***************************************************************************)
(* Host rows and their conversion to and from record batches.  A row is a  *)
(* mapping in key order; every value carries the arrow type pyarrow infers *)
(* for it.  The row the source yields i-th has p = i and v = 1.            *)
(***************************************************************************)
Row(i, ptype, keys) ==
    [keys  |-> keys,
     types |-> [c \in 1..Len(keys) |-> IF keys[c] = "p" THEN ptype ELSE "f64"],
     vals  |-> [c \in 1..Len(keys) |-> IF keys[c] = "p" THEN F(i) ELSE F(1)]]

\* the keys of the rows of a file, and of the rows of a uniform host source
FileKeys == <<"p", "v">>

\* the key lists a host source of varying rows yields: p always and first
RowKeys == {<<"p", "v">>, <<"p", "x">>}

\* a null value of a column
Null == <<0, -1>>

HasKey(row, name) == \E c \in 1..Len(row.keys) : row.keys[c] = name

KeyIndex(row, name) == CHOOSE c \in 1..Len(row.keys) : row.keys[c] = name

\* row[n] if n in row else None
RowGet(row, name) == IF HasKey(row, name) THEN row.vals[KeyIndex(row, name)] ELSE Null

\* the number of the source row a row stems from
RowId(row) == row.vals[1][1]

\* RecordBatch.from_pylist: names and order from the first row, a column's
\* type inferred from its values; values of several types in one column are
\* a conversion error
FromPyListOk(rows) ==
    /\ rows # <<>>
    /\ \A i \in 1..Len(rows) : \A c \in 1..Len(rows[1].keys) :
          HasKey(rows[i], rows[1].keys[c]) =>
              rows[i].types[KeyIndex(rows[i], rows[1].keys[c])] = rows[1].types[c]

\* a faulty from_pylist, which lays the rows out last to first
from_pylist_rev(rows) ==
    [schema  |-> [c \in 1..Len(rows[1].keys) |->
                     Field(rows[1].keys[c], rows[1].types[c], TRUE)],
     columns |-> [c \in 1..Len(rows[1].keys) |->
                     [i \in 1..Len(rows) |->
                         RowGet(rows[Len(rows) + 1 - i], rows[1].keys[c])]]]

from_pylist(rows) ==
    [schema  |-> [c \in 1..Len(rows[1].keys) |->
                     Field(rows[1].keys[c], rows[1].types[c], TRUE)],
     columns |-> [c \in 1..Len(rows[1].keys) |->
                     [i \in 1..Len(rows) |-> RowGet(rows[i], rows[1].keys[c])]]]

\* a faulty to_pylist, which lists the rows last to first
to_pylist_rev(batch) ==
    [i \in 1..NumRows(batch) |->
        [keys  |-> [c \in 1..Len(batch.schema) |-> batch.schema[c].name],
         types |-> [c \in 1..Len(batch.schema) |-> batch.schema[c].type],
         vals  |-> [c \in 1..Len(batch.schema) |->
                      batch.columns[c][NumRows(batch) + 1 - i]]]]

\* RecordBatch.to_pylist: one mapping per row, over all columns
to_pylist(batch) ==
    [i \in 1..NumRows(batch) |->
        [keys  |-> [c \in 1..Len(batch.schema) |-> batch.schema[c].name],
         types |-> [c \in 1..Len(batch.schema) |-> batch.schema[c].type],
         vals  |-> [c \in 1..Len(batch.schema) |-> batch.columns[c][i]]]]

\* the source rows a batch carries, in row order
BatchIds(batch) == [i \in 1..NumRows(batch) |-> batch.columns[1][i][1]]

\* the first n elements of s, the rest of s
Take(s, n) == SubSeq(s, 1, IF n < Len(s) THEN n ELSE Len(s))

Drop(s, n) == SubSeq(s, (IF n < Len(s) THEN n ELSE Len(s)) + 1, Len(s))

RECURSIVE SeqSum(_)
SeqSum(s) == IF s = <<>> THEN 0 ELSE Head(s) + SeqSum(Tail(s))

RECURSIVE SelectIdx(_, _, _)
\* the elements of s at the positions in keep, in order
SelectIdx(s, keep, i) ==
    IF i > Len(s) THEN <<>>
    ELSE (IF i \in keep THEN <<s[i]>> ELSE <<>>) \o SelectIdx(s, keep, i + 1)

(***************************************************************************)
(* The state.                                                              *)
(***************************************************************************)
VARIABLES
    stages,          \* Pipeline.stages
    capacity,        \* Pipeline.capacity
    batch_size,      \* Pipeline.batch_size
    mainpc,          \* the caller: "config", "wiring", "joining", "reattach", "ended"
    outcome,         \* how the last run() ended: "returned", "panicked"; "none" before
    todo,            \* run(): the stages the wiring loop has not reached yet
    batch_senders,   \* run(): Some (TRUE) or None (FALSE), per batch channel
    batch_receivers, \* run(): Some (TRUE) or None (FALSE), per batch channel
    dict_tx_opt,     \* run(): "None", "Some" (Some(Some(tx))), "Taken" (Some(None))
    dict_rx_opt,     \* run(): as dict_tx_opt
    batch_chan_idx,  \* run(): the wiring loop's channel index
    workers,         \* the spawned threads, in the order of run()'s handles
    chans,           \* the contents of the batch channels; code index k is chans[k + 1]
    dict_chan,       \* the contents of the row channel
    gil,             \* holder of the host-runtime lock: 0 nobody, -1 the caller, w > 0 worker w
    row_limit,       \* the most rows the source of a run can hold
    row_keys,        \* the key lists the rows of a host source can have
    sink_raises,     \* whether the callback of a row sink can raise
    registered,      \* history: the stages registered for the coming or current run()
    emitted,         \* history: source rows obtained by the source worker, in order
    delivered,       \* history: source rows handed to the sink callback / written, in order
    hostDropped,     \* history: number of rows dropped by host transforms
    sinkFailed       \* history: the rows on which the sink callback raised

vars == <<stages, capacity, batch_size, row_limit, row_keys, sink_raises, mainpc, outcome, todo, batch_senders,
          batch_receivers, dict_tx_opt, dict_rx_opt, batch_chan_idx, workers,
          chans, dict_chan, gil, registered, emitted, delivered,
          hostDropped, sinkFailed>>

pipelineVars == <<stages, capacity, batch_size, row_limit, row_keys, sink_raises>>

wiringVars == <<todo, batch_senders, batch_receivers, dict_tx_opt, dict_rx_opt,
                batch_chan_idx>>

historyVars == <<registered, emitted, delivered, hostDropped, sinkFailed>>

NoOp == Operator("", "", "", 0)

StageConfig(kind, op) == [kind |-> kind, op |-> op]

IsTransform(kind) == kind \in {"Stage", "PyTransform"}

NoBatches == <<>>

\* the values an operator reads from a batch: its column and, for Vwap, the
\* volume column
OpInputs(op, batch) ==
    [vals |-> ColumnValues(batch, op.column),
     vols |-> IF op.kind = "Vwap" THEN ColumnValues(batch, op.volume_col) ELSE <<>>]

NoInputs == [vals |-> <<>>, vols |-> <<>>]

\* a thread: its role, its position, the batch channel ends it owns (0: none;
\* the source thread and the batcher own the ends of the row channel), its
\* locals; and, as history of a built-in transform, the values its operator
\* has read (seen) and the values it has put out (made) since it was made
Worker(kind, pc, rx, tx, op) ==
    [kind |-> kind, pc |-> pc, rx |-> rx, tx |-> tx, op |-> op,
     held |-> NoBatches, buffer |-> <<>>, writer |-> <<>>, file |-> "none",
     seen |-> NoInputs, made |-> <<>>]

Exited(w) == w.pc \in {"done", "panicked"}

\* Pipeline::new(capacity, batch_size), before a source of at most limit rows
InitWith(limit, keys, raises) ==
    /\ stages = <<>>
    /\ capacity \in 1..MaxCapacity
    /\ batch_size \in 1..MaxBatchSize
    /\ row_limit = limit
    /\ row_keys = keys
    /\ sink_raises = raises
    /\ mainpc = "config"
    /\ outcome = "none"
    /\ todo = <<>>
    /\ batch_senders = <<>>
    /\ batch_receivers = <<>>
    /\ dict_tx_opt = "None"
    /\ dict_rx_opt = "None"
    /\ batch_chan_idx = 0
    /\ workers = <<>>
    /\ chans = <<>>
    /\ dict_chan = <<>>
    /\ gil = 0
    /\ registered = <<>>
    /\ emitted = <<>>
    /\ delivered = <<>>
    /\ hostDropped = 0
    /\ sinkFailed = <<>>

Init == InitWith(MaxRows, {FileKeys}, FALSE)

(***************************************************************************)
(* Stage registration (pipeline.rs 65-125).  Each method pushes one stage. *)
(***************************************************************************)
\* the columns a built-in operator is registered for: p and v are columns
\* of the data, q is not
OpColumns == {"p", "q"}

OpWindows == {2}

Register(cfg) ==
    /\ mainpc = "config"
    /\ Len(stages) < MaxStages
    /\ stages' = Append(stages, cfg)
    /\ registered' = Append(registered, cfg)
    /\ UNCHANGED <<capacity, batch_size, row_limit, row_keys, sink_raises, mainpc, outcome, wiringVars, workers,
                   chans, dict_chan, gil, emitted, delivered, hostDropped, sinkFailed>>

\* source(src): a string ending in ".parquet" is a parquet source, anything
\* else a host iterator factory
source ==
    \E is_parquet_path \in BOOLEAN :
        Register(StageConfig(IF is_parquet_path THEN "ParquetSource" ELSE "Source", NoOp))

sink ==
    \E is_parquet_path \in BOOLEAN :
        Register(StageConfig(IF is_parquet_path THEN "ParquetSink" ELSE "Sink", NoOp))

rolling_mean ==
    \E column \in OpColumns, window \in OpWindows :
        Register(StageConfig("Stage", RollingMeanNew(column, window)))

zscore ==
    \E column \in OpColumns, lookback \in OpWindows :
        Register(StageConfig("Stage", ZScoreNew(column, lookback)))

ema ==
    \E column \in OpColumns, span \in OpWindows :
        Register(StageConfig("Stage", EmaNew(column, span)))

vwap ==
    \E price_col \in OpColumns, window \in OpWindows :
        Register(StageConfig("Stage", VwapNew(price_col, "v", window)))

py_transform == Register(StageConfig("PyTransform", NoOp))

(***************************************************************************)
(* run(): entry, the wiring loop, the join (pipeline.rs 131-268).          *)
(***************************************************************************)
\* a faulty drain, which leaves the stages in the pipeline
DrainedKeep(st) == st

\* self.stages.drain(..): what is left in the pipeline's stage list
Drained(st) == <<>>

\* a faulty count, one too many
CountTransformsOver(st) == Cardinality({i \in 1..Len(st) : IsTransform(st[i].kind)}) + 1

CountTransforms(st) == Cardinality({i \in 1..Len(st) : IsTransform(st[i].kind)})

\* lines 132-163: drain the stages, allocate the channels.  The caller holds
\* the host-runtime lock.
RunEnter ==
    /\ mainpc = "config"
    /\ mainpc' = "wiring"
    /\ stages' = Drained(stages)
    /\ todo' = stages
    /\ LET has_parquet_source == \E i \in 1..Len(stages) : stages[i].kind = "ParquetSource"
           rust_stage_count   == CountTransforms(stages)
       IN  /\ batch_senders' = [k \in 1..(rust_stage_count + 1) |-> TRUE]
           /\ batch_receivers' = [k \in 1..(rust_stage_count + 1) |-> TRUE]
           /\ chans' = [k \in 1..(rust_stage_count + 1) |-> <<>>]
           /\ dict_tx_opt' = IF has_parquet_source THEN "None" ELSE "Some"
           /\ dict_rx_opt' = IF has_parquet_source THEN "None" ELSE "Some"
    /\ batch_chan_idx' = 0
    /\ dict_chan' = <<>>
    /\ workers' = <<>>
    /\ gil' = -1
    /\ outcome' = "none"
    /\ UNCHANGED <<capacity, batch_size, row_limit, row_keys, sink_raises, historyVars>>

\* run() is left: its locals are dropped (every channel end the caller still
\* holds), and the interpreter goes on, releasing the lock between calls
RunLeave(how) ==
    /\ mainpc' = "ended"
    /\ outcome' = how
    /\ todo' = <<>>
    /\ batch_senders' = [k \in DOMAIN batch_senders |-> FALSE]
    /\ batch_receivers' = [k \in DOMAIN batch_receivers |-> FALSE]
    /\ dict_tx_opt' = "None"
    /\ dict_rx_opt' = "None"
    /\ gil' = 0

\* does wiring this stage panic (an unwrap of None, an index out of range)?
\* code index i of the Vecs is position i + 1 here
WirePanics(cfg) ==
    CASE cfg.kind = "ParquetSource" -> ~batch_senders[1]
      [] cfg.kind = "Source" ->
            dict_tx_opt # "Some" \/ dict_rx_opt # "Some" \/ ~batch_senders[1]
      [] IsTransform(cfg.kind) ->
            \/ batch_chan_idx = 0
            \/ batch_chan_idx > Len(batch_receivers)
            \/ ~batch_receivers[batch_chan_idx]
            \/ batch_chan_idx + 1 > Len(batch_senders)
            \/ ~batch_senders[batch_chan_idx + 1]
      [] OTHER ->
            \/ batch_chan_idx = 0
            \/ batch_chan_idx > Len(batch_receivers)
            \/ ~batch_receivers[batch_chan_idx]

\* the threads one stage spawns
Spawned(cfg) ==
    CASE cfg.kind = "ParquetSource" -> <<Worker("ParquetSource", "open", 0, 1, NoOp)>>
      [] cfg.kind = "Source" -> <<Worker("Source", "factory", 0, 0, NoOp),
                                  Worker("Batcher", "recv", 0, 1, NoOp)>>
      [] cfg.kind = "Stage" ->
            <<Worker("Stage", "recv", batch_chan_idx, batch_chan_idx + 1, cfg.op)>>
      [] cfg.kind = "PyTransform" ->
            <<Worker("PyTransform", "recv", batch_chan_idx, batch_chan_idx + 1, NoOp)>>
      [] cfg.kind = "ParquetSink" -> <<Worker("ParquetSink", "recv", batch_chan_idx, 0, NoOp)>>
      [] cfg.kind = "Sink" -> <<Worker("Sink", "recv", batch_chan_idx, 0, NoOp)>>

\* one iteration of the wiring loop (lines 165-261)
Wire ==
    /\ mainpc = "wiring"
    /\ todo # <<>>
    /\ LET cfg == Head(todo)
       IN  IF WirePanics(cfg)
           \* the Source arm spawns its thread before it takes batch_senders[0]
           THEN /\ RunLeave("panicked")
                /\ workers' = IF cfg.kind = "Source" /\ dict_tx_opt = "Some"
                                 /\ dict_rx_opt = "Some"
                              THEN Append(workers, Spawned(cfg)[1]) ELSE workers
                /\ UNCHANGED batch_chan_idx
           ELSE /\ todo' = Tail(todo)
                /\ workers' = workers \o Spawned(cfg)
                /\ batch_senders' =
                      IF cfg.kind \in {"ParquetSource", "Source"}
                      THEN [batch_senders EXCEPT ![1] = FALSE]
                      ELSE IF IsTransform(cfg.kind)
                      THEN [batch_senders EXCEPT ![batch_chan_idx + 1] = FALSE]
                      ELSE batch_senders
                /\ batch_receivers' =
                      IF cfg.kind \in {"ParquetSource", "Source"} THEN batch_receivers
                      ELSE [batch_receivers EXCEPT ![batch_chan_idx] = FALSE]
                /\ dict_tx_opt' = IF cfg.kind = "Source" THEN "Taken" ELSE dict_tx_opt
                /\ dict_rx_opt' = IF cfg.kind = "Source" THEN "Taken" ELSE dict_rx_opt
                /\ batch_chan_idx' =
                      IF cfg.kind \in {"ParquetSource", "Source"} THEN 1
                      ELSE IF IsTransform(cfg.kind) THEN batch_chan_idx + 1
                      ELSE batch_chan_idx
                /\ UNCHANGED <<mainpc, outcome, gil>>
    /\ UNCHANGED <<pipelineVars, chans, dict_chan, historyVars>>

\* py.detach (line 263): the caller releases the lock and starts joining
Detach ==
    /\ mainpc = "wiring"
    /\ todo = <<>>
    /\ mainpc' = "joining"
    /\ gil' = 0
    /\ UNCHANGED <<pipelineVars, outcome, wiringVars, workers, chans, dict_chan,
                   historyVars>>

\* handle.join().unwrap() (lines 264-266), for the handles in order: the
\* joins of threads that ended normally are folded into the step that meets
\* the first panicked thread
Join ==
    /\ mainpc = "joining"
    /\ \E i \in 1..Len(workers) :
          /\ workers[i].pc = "panicked"
          /\ \A j \in 1..(i - 1) : workers[j].pc = "done"
    /\ mainpc' = "reattach"
    /\ outcome' = "panicked"
    /\ UNCHANGED <<pipelineVars, wiringVars, workers, chans, dict_chan, gil, historyVars>>

\* every handle is joined and no thread panicked: the closure of py.detach
\* returns
JoinDone ==
    /\ mainpc = "joining"
    /\ \A i \in 1..Len(workers) : workers[i].pc = "done"
    /\ mainpc' = "reattach"
    /\ outcome' = "returned"
    /\ UNCHANGED <<pipelineVars, wiringVars, workers, chans, dict_chan, gil, historyVars>>

\* leaving py.detach, by return or by unwinding, takes the lock again; then
\* run() returns or the panic reaches the caller
Reattach ==
    /\ mainpc = "reattach"
    /\ gil = 0
    /\ RunLeave(outcome)
    /\ UNCHANGED <<pipelineVars, batch_chan_idx, workers, chans, dict_chan,
                   historyVars>>

\* the caller goes on to use the pipeline object again, once the threads of
\* the last run have ended
Reuse ==
    /\ mainpc = "ended"
    /\ \A w \in 1..Len(workers) : Exited(workers[w])
    /\ mainpc' = "config"
    /\ batch_senders' = <<>>
    /\ batch_receivers' = <<>>
    /\ batch_chan_idx' = 0
    /\ workers' = <<>>
    /\ chans' = <<>>
    /\ dict_chan' = <<>>
    /\ registered' = <<>>
    /\ emitted' = <<>>
    /\ delivered' = <<>>
    /\ hostDropped' = 0
    /\ sinkFailed' = <<>>
    /\ UNCHANGED <<pipelineVars, outcome, todo, dict_tx_opt, dict_rx_opt, gil>>

(***************************************************************************)
(* Channels (crossbeam bounded): a send blocks while the channel is full   *)
(* and some receiver lives, and fails at once when no receiver is left; a  *)
(* receive blocks while the channel is empty and some sender lives, and    *)
(* fails when it is empty and no sender is left.  A thread's channel ends  *)
(* are dropped when the thread ends, normally or by a panic.               *)
(***************************************************************************)
Live(w) == ~Exited(workers[w])

Threads == 1..Len(workers)

SenderAlive(k) ==
    \/ batch_senders[k]
    \/ \E w \in Threads : Live(w) /\ workers[w].tx = k

ReceiverAlive(k) ==
    \/ batch_receivers[k]
    \/ \E w \in Threads : Live(w) /\ workers[w].rx = k

DictSenderAlive ==
    \/ dict_tx_opt = "Some"
    \/ \E w \in Threads : Live(w) /\ workers[w].kind = "Source"

DictReceiverAlive ==
    \/ dict_rx_opt = "Some"
    \/ \E w \in Threads : Live(w) /\ workers[w].kind = "Batcher"

\* a faulty send, which queues the batch whatever the channel holds
SendBatchUnbounded(w, next) ==
    LET me == workers[w]
    IN  /\ me.held # NoBatches
        /\ \/ /\ ReceiverAlive(me.tx)
              /\ chans' = [chans EXCEPT ![me.tx] = Append(@, me.held[1])]
           \/ /\ ~ReceiverAlive(me.tx)
              /\ UNCHANGED chans
        /\ workers' = [workers EXCEPT ![w] =
                          [me EXCEPT !.pc = next, !.held = NoBatches, !.buffer =
                              IF me.kind = "Batcher" THEN <<>> ELSE me.buffer]]

\* sender.send(batch).ok() by thread w, which then goes to pc next
SendBatch(w, next) ==
    LET me == workers[w]
    IN  /\ me.held # NoBatches
        /\ \/ /\ ReceiverAlive(me.tx)
              /\ Len(chans[me.tx]) < capacity
              /\ chans' = [chans EXCEPT ![me.tx] = Append(@, me.held[1])]
           \/ /\ ~ReceiverAlive(me.tx)
              /\ UNCHANGED chans
        /\ workers' = [workers EXCEPT ![w] =
                          [me EXCEPT !.pc = next, !.held = NoBatches, !.buffer =
                              IF me.kind = "Batcher" THEN <<>> ELSE me.buffer]]

\* the end of a receive loop over channel rx: empty and every sender gone
Closed(k) == chans[k] = <<>> /\ ~SenderAlive(k)

(***************************************************************************)
(* The row source thread (pipeline.rs 178-186).                            *)
(***************************************************************************)
\* the arrow types pyarrow infers for the values a host row carries under p
RowTypes == {"f64"}

\* line 179: the factory is called, under the lock; unwrap panics on an error
SourceFactory(w) ==
    /\ workers[w].kind = "Source" /\ workers[w].pc = "factory"
    /\ gil = 0
    /\ \E ok \in BOOLEAN :
          workers' = [workers EXCEPT ![w].pc = IF ok THEN "next" ELSE "panicked"]
    /\ UNCHANGED <<pipelineVars, mainpc, outcome, wiringVars, chans, dict_chan,
                   gil, historyVars>>

\* a faulty request, where an error of __next__ is a panic
SourceNextPanics(w) ==
    /\ workers[w].kind = "Source" /\ workers[w].pc = "next"
    /\ gil = 0
    /\ \/ /\ Len(emitted) < row_limit
          /\ \E ptype \in RowTypes, keys \in row_keys :
                workers' = [workers EXCEPT ![w].pc = "send",
                               ![w].buffer = <<Row(Len(emitted) + 1, ptype, keys)>>]
          /\ emitted' = Append(emitted, Len(emitted) + 1)
       \/ /\ workers' = [workers EXCEPT ![w].pc = "panicked"]
          /\ UNCHANGED emitted
    /\ UNCHANGED <<pipelineVars, mainpc, outcome, wiringVars, chans, dict_chan,
                   gil, registered, delivered, hostDropped, sinkFailed>>

\* line 181: __next__ under the lock: a row, or an error that ends the loop
SourceNext(w) ==
    /\ workers[w].kind = "Source" /\ workers[w].pc = "next"
    /\ gil = 0
    /\ \/ /\ Len(emitted) < row_limit
          /\ \E ptype \in RowTypes, keys \in row_keys :
                workers' = [workers EXCEPT ![w].pc = "send",
                               ![w].buffer = <<Row(Len(emitted) + 1, ptype, keys)>>]
          /\ emitted' = Append(emitted, Len(emitted) + 1)
       \/ /\ workers' = [workers EXCEPT ![w].pc = "done"]
          /\ UNCHANGED emitted
    /\ UNCHANGED <<pipelineVars, mainpc, outcome, wiringVars, chans, dict_chan,
                   gil, registered, delivered, hostDropped, sinkFailed>>

\* line 182: dict_tx.send(item).ok()
SourceSend(w) ==
    /\ workers[w].kind = "Source" /\ workers[w].pc = "send"
    /\ \/ /\ DictReceiverAlive
          /\ Len(dict_chan) < capacity
          /\ dict_chan' = Append(dict_chan, workers[w].buffer[1])
       \/ /\ ~DictReceiverAlive
          /\ UNCHANGED dict_chan
    /\ workers' = [workers EXCEPT ![w].pc = "next", ![w].buffer = <<>>]
    /\ UNCHANGED <<pipelineVars, mainpc, outcome, wiringVars, chans, gil,
                   historyVars>>

(***************************************************************************)
(* The batcher thread (batcher.rs 31-74).                                  *)
(***************************************************************************)
\* flush(): the buffer as one record batch, None when a host call fails
\* (building the list, importing pyarrow) or the rows do not convert
flush(rows, host_ok) ==
    IF host_ok /\ FromPyListOk(rows) THEN <<from_pylist(rows)>> ELSE NoBatches

\* lines 35-58: receiver.recv(), blocking; then the try_recv loop, which
\* takes what the channel holds until the buffer has batch_size rows; then
\* the test of line 54.  On a closed channel, the rest of the buffer.
BatcherRecv(w) ==
    /\ workers[w].kind = "Batcher" /\ workers[w].pc = "recv"
    /\ LET me == workers[w]
           room == IF Len(me.buffer) + 1 < batch_size
                   THEN batch_size - (Len(me.buffer) + 1) ELSE 0
           got == Take(dict_chan, 1 + room)
       IN  \/ /\ dict_chan # <<>>
              /\ dict_chan' = Drop(dict_chan, 1 + room)
              /\ workers' = [workers EXCEPT ![w].buffer = me.buffer \o got,
                                ![w].pc = IF Len(me.buffer \o got) >= batch_size
                                          THEN "flush" ELSE "recv"]
           \/ /\ dict_chan = <<>>
              /\ ~DictSenderAlive
              /\ UNCHANGED dict_chan
              /\ workers' = [workers EXCEPT ![w].pc =
                                IF me.buffer # <<>> THEN "final" ELSE "done"]
    /\ UNCHANGED <<pipelineVars, mainpc, outcome, wiringVars, chans, gil, historyVars>>

\* line 55 and line 39: flush(&buffer), which takes the lock for the conversion
BatcherFlush(w) ==
    /\ workers[w].kind = "Batcher" /\ workers[w].pc \in {"flush", "final"}
    /\ gil = 0
    /\ \E host_ok \in BOOLEAN :
       LET me == workers[w]
           batch == flush(me.buffer, host_ok)
       IN  workers' = [workers EXCEPT ![w] =
              [me EXCEPT !.held = batch,
                         !.pc = IF me.pc = "flush"
                                THEN (IF batch # NoBatches THEN "send" ELSE "recv")
                                ELSE (IF batch # NoBatches THEN "finalsend" ELSE "done")]]
    /\ UNCHANGED <<pipelineVars, mainpc, outcome, wiringVars, chans, dict_chan,
                   gil, historyVars>>

\* lines 56-57 and line 40: sender.send(batch).ok(), then buffer.clear() or break
BatcherSend(w) ==
    /\ workers[w].kind = "Batcher" /\ workers[w].pc \in {"send", "finalsend"}
    /\ SendBatch(w, IF workers[w].pc = "send" THEN "recv" ELSE "done")
    /\ UNCHANGED <<pipelineVars, mainpc, outcome, wiringVars, dict_chan, gil,
                   historyVars>>

(***************************************************************************)
(* The parquet source thread (parquet_reader.rs 9-38).  The file holds     *)
(* some rows of columns p and v; its reader yields them batch_size at a    *)
(* time.                                                                   *)
(***************************************************************************)
\* lines 15-28: open the file and build the reader; each expect panics on an
\* error.  The file holds n readable rows.
ParquetOpen(w) ==
    /\ workers[w].kind = "ParquetSource" /\ workers[w].pc = "open"
    /\ \/ \E n \in 0..row_limit, ptype \in RowTypes :
             workers' = [workers EXCEPT ![w].pc = "read",
                            ![w].buffer = [i \in 1..n |-> Row(i, ptype, FileKeys)]]
       \/ workers' = [workers EXCEPT ![w].pc = "panicked"]
    /\ UNCHANGED <<pipelineVars, mainpc, outcome, wiringVars, chans, dict_chan, gil,
                   historyVars>>

\* lines 32-36: the next batch of the reader; after the readable rows, the
\* end of the file or data the reader cannot decode (a panic)
ParquetRead(w) ==
    /\ workers[w].kind = "ParquetSource" /\ workers[w].pc = "read"
    /\ LET me == workers[w]
           rows == Take(me.buffer, batch_size)
       IN  IF me.buffer # <<>>
           THEN /\ workers' = [workers EXCEPT ![w] =
                      [me EXCEPT !.pc = "send", !.held = <<from_pylist(rows)>>,
                                 !.buffer = Drop(me.buffer, batch_size)]]
                /\ emitted' = emitted \o [i \in 1..Len(rows) |-> RowId(rows[i])]
           ELSE /\ \E corrupt \in BOOLEAN :
                      workers' = [workers EXCEPT ![w].pc =
                                     IF corrupt THEN "panicked" ELSE "done"]
                /\ UNCHANGED emitted
    /\ UNCHANGED <<pipelineVars, mainpc, outcome, wiringVars, chans, dict_chan, gil,
                   registered, delivered, hostDropped, sinkFailed>>

\* line 34: sender.send(b).ok()
ParquetSend(w) ==
    /\ workers[w].kind = "ParquetSource" /\ workers[w].pc = "send"
    /\ SendBatch(w, "read")
    /\ UNCHANGED <<pipelineVars, mainpc, outcome, wiringVars, dict_chan, gil,
                   historyVars>>

(***************************************************************************)
(* A built-in transform thread (pipeline.rs 198-203).                      *)
(***************************************************************************)
\* lines 199-200: the next batch of receiver.iter(), processed; a panic of
\* process() ends the thread
StageRecv(w) ==
    /\ workers[w].kind = "Stage" /\ workers[w].pc = "recv"
    /\ LET me == workers[w]
       IN  \/ /\ chans[me.rx] # <<>>
              /\ chans' = [chans EXCEPT ![me.rx] = Tail(@)]
              /\ LET batch == Head(chans[me.rx])
                     r == process(me.op, batch)
                     read == OpInputs(me.op, batch)
                 IN  workers' = [workers EXCEPT ![w] =
                        IF r.ok THEN [me EXCEPT !.pc = "send", !.op = r.op,
                                                !.held = <<r.batch>>,
                                                !.seen = [vals |-> @.vals \o read.vals,
                                                          vols |-> @.vols \o read.vols],
                                                !.made = @ \o r.batch.columns[Len(r.batch.columns)]]
                        ELSE [me EXCEPT !.pc = "panicked"]]
           \/ /\ Closed(me.rx)
              /\ UNCHANGED chans
              /\ workers' = [workers EXCEPT ![w].pc = "done"]
    /\ UNCHANGED <<pipelineVars, mainpc, outcome, wiringVars, dict_chan, gil,
                   historyVars>>

\* line 201: sender.send(result).ok()
StageSend(w) ==
    /\ workers[w].kind = "Stage" /\ workers[w].pc = "send"
    /\ SendBatch(w, "recv")
    /\ UNCHANGED <<pipelineVars, mainpc, outcome, wiringVars, dict_chan, gil,
                   historyVars>>

(***************************************************************************)
(* A host transform thread (pipeline.rs 211-236).                          *)
(***************************************************************************)
\* line 212: the next batch of receiver.iter(), taken without the lock
PyTransformRecv(w) ==
    /\ workers[w].kind = "PyTransform" /\ workers[w].pc = "recv"
    /\ LET me == workers[w]
       IN  \/ /\ chans[me.rx] # <<>>
              /\ chans' = [chans EXCEPT ![me.rx] = Tail(@)]
              /\ workers' = [workers EXCEPT ![w].pc = "attach",
                                ![w].held = <<Head(chans[me.rx])>>]
           \/ /\ Closed(me.rx)
              /\ UNCHANGED chans
              /\ workers' = [workers EXCEPT ![w].pc = "done"]
    /\ UNCHANGED <<pipelineVars, mainpc, outcome, wiringVars, dict_chan, gil,
                   historyVars>>

\* lines 218-223: the results the callback gives for the rows, in row order:
\* the rows at the positions in keep; for the others the callback returned
\* None or raised
\* a faulty collection of the results, last to first
filter_map_rev(rows, keep) ==
    LET kept == SelectIdx(rows, keep, 1)
    IN  [i \in 1..Len(kept) |-> kept[Len(kept) + 1 - i]]

filter_map(rows, keep) == SelectIdx(rows, keep, 1)

\* lines 213-231: Python::attach; the callback is called on every row and the
\* surviving rows are made a batch.  The lock is kept for the send when a
\* row survives (line 232 is inside the closure), released otherwise.
PyTransformAttach(w) ==
    /\ workers[w].kind = "PyTransform" /\ workers[w].pc = "attach"
    /\ gil = 0
    /\ LET me == workers[w]
           rows_list == to_pylist(me.held[1])
       IN  \E keep \in SUBSET (1..Len(rows_list)) :
              LET results == filter_map(rows_list, keep)
              IN  /\ hostDropped' = hostDropped + (Len(rows_list) - Len(results))
                  /\ IF results # <<>>
                     THEN /\ gil' = w
                          /\ workers' = [workers EXCEPT ![w] =
                                [me EXCEPT !.pc = "send", !.held = <<from_pylist(results)>>]]
                     ELSE /\ gil' = 0
                          /\ workers' = [workers EXCEPT ![w] =
                                [me EXCEPT !.pc = "recv", !.held = NoBatches]]
    /\ UNCHANGED <<pipelineVars, mainpc, outcome, wiringVars, chans, dict_chan,
                   registered, emitted, delivered, sinkFailed>>

\* line 232: sender.send(new_batch).ok(), with the lock held; the closure
\* then ends and the lock is released
PyTransformSend(w) ==
    /\ workers[w].kind = "PyTransform" /\ workers[w].pc = "send"
    /\ SendBatch(w, "recv")
    /\ gil' = 0
    /\ UNCHANGED <<pipelineVars, mainpc, outcome, wiringVars, dict_chan,
                   historyVars>>

(***************************************************************************)
(* The row sink thread (pipeline.rs 247-258).                              *)
(***************************************************************************)
\* line 248: the next batch of receiver.iter(), taken without the lock
SinkRecv(w) ==
    /\ workers[w].kind = "Sink" /\ workers[w].pc = "recv"
    /\ LET me == workers[w]
       IN  \/ /\ chans[me.rx] # <<>>
              /\ chans' = [chans EXCEPT ![me.rx] = Tail(@)]
              /\ workers' = [workers EXCEPT ![w].pc = "attach",
                                ![w].held = <<Head(chans[me.rx])>>]
           \/ /\ Closed(me.rx)
              /\ UNCHANGED chans
              /\ workers' = [workers EXCEPT ![w].pc = "done"]
    /\ UNCHANGED <<pipelineVars, mainpc, outcome, wiringVars, dict_chan, gil,
                   historyVars>>

\* a faulty loop over the rows, which ends at the first row the callback
\* raises on
SinkCallsUntilError(ids, raised) ==
    SelectIdx(ids, {i \in 1..Len(ids) : \A j \in 1..(i - 1) : j \notin raised}, 1)

\* lines 253-255: the rows the callback is called on, given the positions of
\* those it raises on: every row, an error is dropped (.ok())
SinkCalls(ids, raised) == ids

\* lines 249-256: under the lock, the callback is called on every row of the
\* batch, whether it raises or not
SinkAttach(w) ==
    /\ workers[w].kind = "Sink" /\ workers[w].pc = "attach"
    /\ gil = 0
    /\ LET ids == BatchIds(workers[w].held[1])
       IN  \E raised \in (IF sink_raises THEN SUBSET (1..Len(ids)) ELSE {{}}) :
              LET called == SinkCalls(ids, raised)
              IN  /\ delivered' = delivered \o called
                  /\ sinkFailed' = sinkFailed \o
                        SelectIdx(ids, raised \cap (1..Len(called)), 1)
    /\ workers' = [workers EXCEPT ![w].pc = "recv", ![w].held = NoBatches]
    /\ UNCHANGED <<pipelineVars, mainpc, outcome, wiringVars, chans, dict_chan,
                   gil, registered, emitted, hostDropped>>

(***************************************************************************)
(* The parquet sink thread (parquet_writer.rs 14-40).                      *)
(***************************************************************************)
\* lines 20-35: the next batch; the writer is created on the first one, with
\* its schema (File::create may fail: a panic); a batch the writer does not
\* accept is a write error (a panic).
\* lines 37-39: at the end of the channel the writer, if any, is closed.
\* The output file is "none" until File::create, "open" while it has no
\* footer and "finalized" once close() has written it.
\* lines 32-34: the sink compares no schema itself; whether write() is an
\* error is up to ArrowWriter, which encodes the columns of the batch by
\* position against the fields of the file schema and is an error where an
\* array's type is not the field's.  Releases of the parquet crate differ in
\* whether the field names are compared as well (names_checked).
WriterAccepts(schema, batch, names_checked) ==
    /\ Len(batch.schema) = Len(schema)
    /\ \A c \in 1..Len(schema) : batch.schema[c].type = schema[c].type
    /\ names_checked => batch.schema = schema

ParquetSinkRecv(w) ==
    /\ workers[w].kind = "ParquetSink" /\ workers[w].pc = "recv"
    /\ LET me == workers[w]
           batch == Head(chans[me.rx])
           schema == IF me.writer = <<>> THEN batch.schema ELSE me.writer[1]
       IN  \/ /\ chans[me.rx] # <<>>
              /\ chans' = [chans EXCEPT ![me.rx] = Tail(@)]
              /\ \E create_ok \in BOOLEAN, names_checked \in BOOLEAN :
                    IF (create_ok \/ me.writer # <<>>)
                          /\ WriterAccepts(schema, batch, names_checked)
                    THEN /\ workers' = [workers EXCEPT ![w].writer = <<schema>>,
                                                       ![w].file = "open"]
                         /\ delivered' = delivered \o BatchIds(batch)
                    ELSE /\ workers' = [workers EXCEPT ![w].pc = "panicked"]
                         /\ UNCHANGED delivered
           \/ /\ Closed(me.rx)
              /\ UNCHANGED <<chans, delivered>>
              /\ workers' = [workers EXCEPT ![w].pc = "done",
                                ![w].file = IF me.writer # <<>> THEN "finalized"
                                            ELSE me.file]
    /\ UNCHANGED <<pipelineVars, mainpc, outcome, wiringVars, dict_chan, gil,
                   registered, emitted, hostDropped, sinkFailed>>

(***************************************************************************)
(* The specification.                                                      *)
(***************************************************************************)
\* a step of run(): of the caller, or of a thread it spawned
RunStep ==
    \/ RunEnter
    \/ Wire
    \/ Detach
    \/ Join
    \/ JoinDone
    \/ Reattach
    \/ Reuse
    \/ \E w \in Threads : SourceFactory(w)
    \/ \E w \in Threads : SourceNext(w)
    \/ \E w \in Threads : SourceSend(w)
    \/ \E w \in Threads : BatcherRecv(w)
    \/ \E w \in Threads : BatcherFlush(w)
    \/ \E w \in Threads : BatcherSend(w)
    \/ \E w \in Threads : ParquetOpen(w)
    \/ \E w \in Threads : ParquetRead(w)
    \/ \E w \in Threads : ParquetSend(w)
    \/ \E w \in Threads : StageRecv(w)
    \/ \E w \in Threads : StageSend(w)
    \/ \E w \in Threads : PyTransformRecv(w)
    \/ \E w \in Threads : PyTransformAttach(w)
    \/ \E w \in Threads : PyTransformSend(w)
    \/ \E w \in Threads : SinkRecv(w)
    \/ \E w \in Threads : SinkAttach(w)
    \/ \E w \in Threads : ParquetSinkRecv(w)

Next ==
    \/ source
    \/ sink
    \/ rolling_mean
    \/ zscore
    \/ ema
    \/ vwap
    \/ py_transform
    \/ RunStep

Spec == Init /\ [][Next]_vars

(***************************************************************************)
(* The same pipeline before longer sources, for the bound on the batches   *)
(* in flight.  The built-in transforms differ in what they compute, not    *)
(* in how their worker moves batches: rolling_mean stands for them here.   *)
(***************************************************************************)
InitFlow == InitWith(MaxFlowRows, {FileKeys}, FALSE)

NextFlow ==
    \/ source
    \/ sink
    \/ rolling_mean
    \/ py_transform
    \/ RunStep

SpecFlow == InitFlow /\ [][NextFlow]_vars

(***************************************************************************)
(* The same pipelines over a host source whose rows differ in their keys   *)
(* and with a sink callback that can raise.                                *)
(***************************************************************************)
InitRows == InitWith(MaxRows, RowKeys, TRUE)

SpecRows == InitRows /\ [][NextFlow]_vars

(***************************************************************************)
(* The built-in operators on their own: a run of a parquet source, one     *)
(* built-in transform and a parquet sink, taken up when the three threads  *)
(* are spawned, the caller has started to join and the source has opened   *)
(* its file.  The file's columns, types and values vary.                   *)
(***************************************************************************)
\* most rows in a file of this specification
MaxOpRows == 3

HarnessWindows == {1, 2}

HarnessValues == {F(1), F(3)}

\* the columns of a file and their types, in positional order
HarnessShapes ==
    {[keys |-> <<"p", "v">>, types |-> <<"f64", "f64">>],
     [keys |-> <<"v", "p">>, types |-> <<"f64", "f64">>],
     [keys |-> <<"p">>, types |-> <<"f64">>],
     [keys |-> <<"p", "v">>, types |-> <<"i64", "f64">>]}

HarnessOps ==
    UNION {{RollingMeanNew(c, n), EmaNew(c, n), ZScoreNew(c, n), VwapNew(c, "v", n)} :
              c \in OpColumns, n \in HarnessWindows}

HarnessVolumes == {F(0), F(1)}

\* the rows of a file of that shape whose p values are ps and whose v values
\* are vs; every other value is 1
HarnessRows(shape, ps, vs) ==
    [i \in 1..Len(ps) |->
        [keys  |-> shape.keys,
         types |-> shape.types,
         vals  |-> [c \in 1..Len(shape.keys) |->
                      IF shape.keys[c] = "p" THEN ps[i]
                      ELSE IF shape.keys[c] = "v" THEN vs[i] ELSE F(1)]]]

InitOps ==
    \E op \in HarnessOps, shape \in HarnessShapes, n \in 1..MaxOpRows :
    \E ps \in [1..n -> HarnessValues], vs \in [1..n -> HarnessVolumes] :
        /\ stages = <<>>
        /\ capacity \in 1..MaxCapacity
        /\ batch_size \in 1..MaxBatchSize
        /\ row_limit = MaxOpRows
        /\ row_keys = {FileKeys}
        /\ sink_raises = FALSE
        /\ mainpc = "joining"
        /\ outcome = "none"
        /\ todo = <<>>
        /\ batch_senders = <<FALSE, FALSE>>
        /\ batch_receivers = <<FALSE, FALSE>>
        /\ dict_tx_opt = "None"
        /\ dict_rx_opt = "None"
        /\ batch_chan_idx = 2
        /\ workers = <<[Worker("ParquetSource", "read", 0, 1, NoOp)
                           EXCEPT !.buffer = HarnessRows(shape, ps, vs)],
                       Worker("Stage", "recv", 1, 2, op),
                       Worker("ParquetSink", "recv", 2, 0, NoOp)>>
        /\ chans = <<<<>>, <<>>>>
        /\ dict_chan = <<>>
        /\ gil = 0
        /\ registered = <<StageConfig("ParquetSource", NoOp), StageConfig("Stage", op),
                          StageConfig("ParquetSink", NoOp)>>
        /\ emitted = <<>>
        /\ delivered = <<>>
        /\ hostDropped = 0
        /\ sinkFailed = <<>>

NextOps ==
    \/ \E w \in Threads : ParquetRead(w)
    \/ \E w \in Threads : ParquetSend(w)
    \/ \E w \in Threads : StageRecv(w)
    \/ \E w \in Threads : StageSend(w)
    \/ \E w \in Threads : ParquetSinkRecv(w)

SpecOps == InitOps /\ [][NextOps]_vars

(***************************************************************************)
(* Properties.                                                             *)
(***************************************************************************)
IsSource(kind) == kind \in {"Source", "ParquetSource"}

IsSink(kind) == kind \in {"Sink", "ParquetSink"}

\* a valid stage list: one source first, one sink last, transforms between
ValidList(st) ==
    /\ Len(st) >= 2
    /\ IsSource(st[1].kind)
    /\ IsSink(st[Len(st)].kind)
    /\ \A i \in 2..(Len(st) - 1) : IsTransform(st[i].kind)

\* run() has been entered and has not been left
Running == mainpc \in {"wiring", "joining", "reattach"}

\* some step of the program is possible.  A built-in transform worker with a
\* batch to take, or at the end of its channel, can step; that case of
\* ENABLED Next is stated first, so that settling it does not run the operator
CanStep ==
    \/ \E w \in Threads :
          /\ workers[w].kind = "Stage" /\ workers[w].pc = "recv"
          /\ (chans[workers[w].rx] # <<>> \/ Closed(workers[w].rx))
    \/ ENABLED Next

\* thread w is at a channel send or receive
AtChannelOp(w) == workers[w].pc \in {"recv", "send", "finalsend"}

\* the batches queued in the channels and those held by the threads
InFlight ==
    SeqSum([k \in 1..Len(chans) |-> Len(chans[k])])
        + Cardinality({w \in Threads : workers[w].held # NoBatches})

\* the rows of a batch, over its first ncols columns, in row order
RowsOf(batch, ncols) ==
    [i \in 1..NumRows(batch) |-> [c \in 1..ncols |-> batch.columns[c][i]]]

\* out carries the rows of in, all of them and in the same order
SameRows(in, out) ==
    /\ NumRows(out) = NumRows(in)
    /\ Len(out.columns) >= Len(in.columns)
    /\ RowsOf(out, Len(in.columns)) = RowsOf(in, Len(in.columns))

\* out carries some of the rows of in, in the same order
SurvivingRows(in, out) ==
    /\ Len(out.columns) = Len(in.columns)
    /\ \E keep \in SUBSET (1..NumRows(in)) :
          RowsOf(out, Len(in.columns)) = SelectIdx(RowsOf(in, Len(in.columns)), keep, 1)

\* C1: run() of a stage list that is not one source, then transforms, then
\* one sink is fatal: it neither returns normally nor stops for ever.
RunFatalOnInvalidList ==
    ~ValidList(registered) =>
        /\ (mainpc = "ended" => outcome = "panicked")
        /\ (Running => CanStep)

\* C2: no worker is at a channel send or receive while it holds the
\* host-runtime lock, and the caller does not hold the lock while it joins.
NoLockAcrossChannelOps ==
    /\ \A w \in Threads : gil = w => ~AtChannelOp(w)
    /\ mainpc = "joining" => gil # -1

\* C3: a run of a valid pipeline over a finite source never stops before
\* run() has returned: no reachable state of the run is a deadlock.
ValidRunNeverStops ==
    (ValidList(registered) /\ Running) => CanStep

AllRowsAccounted ==
    (mainpc = "ended" /\ outcome = "returned" /\ ValidList(registered)) =>
        Len(delivered) = Len(emitted) - hostDropped

\* C6 as stated: the batches in flight of a valid pipeline are at most the
\* channel capacity plus the number of stages.
InFlightWithinCapacityPlusStages ==
    ValidList(registered) => InFlight <= capacity + Len(registered)

\* C6, amended: no channel holds more than the capacity, and the batches in
\* flight are at most the capacity times the number of batch channels (one
\* more than the transforms) plus the number of stages.
InFlightWithinChannelsPlusStages ==
    /\ \A k \in 1..Len(chans) : Len(chans[k]) <= capacity
    /\ InFlight <= (CountTransforms(registered) + 1) * capacity + Len(registered)

\* a source, one transform and a sink with every channel full and every
\* thread holding a batch
InFlightWitness ==
    /\ ValidList(registered)
    /\ CountTransforms(registered) = 1
    /\ InFlight = 2 * capacity + 3

\* C7: once a worker of a valid pipeline has failed fatally, the run does
\* not stop before every thread has ended, and run() ends with a fatal error.
FatalFailureSurfaces ==
    (ValidList(registered) /\ mainpc # "config"
        /\ \E w \in Threads : workers[w].pc = "panicked") =>
        /\ CanStep
        /\ (mainpc = "ended" => outcome = "panicked")

\* an operator as its constructor leaves it
FreshOp(op) == op.history = NoHistory /\ op.sum = F(0) /\ op.current = None

\* nothing of a run is left: the state of a pipeline just constructed
AsConstructed ==
    /\ stages = <<>> /\ todo = <<>> /\ workers = <<>> /\ chans = <<>>
    /\ dict_chan = <<>> /\ batch_senders = <<>> /\ batch_receivers = <<>>
    /\ dict_tx_opt = "None" /\ dict_rx_opt = "None" /\ batch_chan_idx = 0
    /\ gil = 0 /\ registered = <<>> /\ emitted = <<>> /\ delivered = <<>>
    /\ hostDropped = 0

\* C8: entering run() drains the stage list into the run, with new channels
\* and no thread; the list stays empty through the run and after its end;
\* capacity and batch size never change; the pipeline is then as one just
\* constructed, and the stages registered next carry fresh operators.
StageListLifeCycle ==
    [][/\ capacity' = capacity
       /\ batch_size' = batch_size
       /\ (mainpc = "config" /\ mainpc' # "config") =>
             /\ stages' = <<>>
             /\ todo' = stages
             /\ workers' = <<>>
             /\ \A k \in 1..Len(chans') : chans'[k] = <<>>
       /\ (mainpc # "config" /\ mainpc' # "config") => stages' = <<>>
       /\ (mainpc # "config" /\ mainpc' = "config") => AsConstructed'
       /\ mainpc' = "config" =>
             \A i \in 1..Len(stages') : FreshOp(stages'[i].op)]_vars

\* a run has ended and fresh stages are registered on the same pipeline
ReuseWitness ==
    /\ mainpc = "config"
    /\ outcome # "none"
    /\ stages # <<>>

\* C9 as stated: for each batch a transform worker, built-in or host,
\* receives and does not fail on, it forwards one batch with the same rows
\* in the same order.
EveryTransformKeepsRows ==
    [][\A w \in {t \in Threads : t <= Len(workers')} :
          /\ (workers[w].kind = "Stage" /\ workers[w].pc = "recv"
                /\ workers'[w].pc = "send") =>
                SameRows(Head(chans[workers[w].rx]), workers'[w].held[1])
          /\ (workers[w].kind = "PyTransform" /\ workers[w].pc = "attach"
                /\ workers'[w].pc # "attach") =>
                /\ workers'[w].pc = "send"
                /\ SameRows(workers[w].held[1], workers'[w].held[1])]_vars

\* C9, amended: a built-in transform that does not fail on a batch forwards
\* one batch with the same rows in the same order; a host transform forwards
\* the rows its callback did not drop, in input order, as one batch, and
\* nothing when no row is left.
TransformsKeepOrder ==
    [][\A w \in {t \in Threads : t <= Len(workers')} :
          /\ (workers[w].kind = "Stage" /\ workers[w].pc = "recv"
                /\ workers'[w].pc = "send") =>
                SameRows(Head(chans[workers[w].rx]), workers'[w].held[1])
          /\ (workers[w].kind = "PyTransform" /\ workers[w].pc = "attach"
                /\ workers'[w].pc = "send") =>
                /\ NumRows(workers'[w].held[1]) >= 1
                /\ SurvivingRows(workers[w].held[1], workers'[w].held[1])
                /\ hostDropped' - hostDropped =
                      NumRows(workers[w].held[1]) - NumRows(workers'[w].held[1])
          /\ (workers[w].kind = "PyTransform" /\ workers[w].pc = "attach"
                /\ workers'[w].pc = "recv") =>
                /\ workers'[w].held = NoBatches
                /\ hostDropped' - hostDropped = NumRows(workers[w].held[1])]_vars

\* a host transform forwards one row of a batch of which its callback
\* dropped the other
HostDropWitness ==
    \E w \in Threads :
        /\ workers[w].kind = "PyTransform"
        /\ workers[w].pc = "send"
        /\ NumRows(workers[w].held[1]) = 1
        /\ hostDropped = 1
        /\ batch_size = 2

\* the name the documentation gives the column a built-in operator appends
TemplateName(op) ==
    CASE op.kind = "RollingMean" -> op.column \o "_rolling_mean_" \o ToString(op.window)
      [] op.kind = "Ema"         -> op.column \o "_ema_" \o ToString(op.window)
      [] op.kind = "ZScore"      -> op.column \o "_zscore_" \o ToString(op.window)
      [] op.kind = "Vwap"        -> "vwap_" \o ToString(op.window)

\* C10: the batch a built-in transform makes of an input batch has the input
\* schema, unchanged in names, types and positions, then one nullable double
\* field named by the operator's template; the input columns are unchanged.
OutputSchemaIsInputPlusOne ==
    [][\A w \in {t \in Threads : t <= Len(workers')} :
          (workers[w].kind = "Stage" /\ workers[w].pc = "recv"
             /\ workers'[w].pc = "send") =>
             LET in  == Head(chans[workers[w].rx])
                 out == workers'[w].held[1]
             IN  /\ out.schema =
                       Append(in.schema, Field(TemplateName(workers[w].op), "f64", TRUE))
                 /\ Len(out.columns) = Len(in.columns) + 1
                 /\ SubSeq(out.columns, 1, Len(in.columns)) = in.columns]_vars

\* a Vwap of window 2 has made its batch of a batch whose columns are v, p
OutputSchemaWitness ==
    \E w \in Threads :
        /\ workers[w].kind = "Stage"
        /\ workers[w].pc = "send"
        /\ workers[w].op.kind = "Vwap"
        /\ [c \in 1..3 |-> workers[w].held[1].schema[c].name] = <<"v", "p", "vwap_2">>

\* the batches in the channels and in the hands of the threads
BatchesAbout ==
    UNION {{chans[k][i] : i \in 1..Len(chans[k])} : k \in 1..Len(chans)}
        \cup {workers[w].held[1] : w \in {t \in Threads : workers[t].held # NoBatches}}

\* C11: the column names of every batch are unique (a built-in operator
\* whose output name is already in its input fails instead of emitting it).
ColumnNamesUnique ==
    \A b \in BatchesAbout :
        \A i, j \in 1..Len(b.schema) : i # j => b.schema[i].name # b.schema[j].name

\* the Stage workers running an operator with a warm-up window
WindowedStages ==
    {w \in Threads : /\ workers[w].kind = "Stage"
                     /\ workers[w].op.kind \in {"RollingMean", "ZScore", "Vwap"}}

\* the volume summed over the window that ends at the i-th row a worker read
WindowVolume(w, i) ==
    FSum(SubSeq(workers[w].seen.vols, i - workers[w].op.window + 1, i))

BuiltinStages == {w \in Threads : workers[w].kind = "Stage"}

\* the operator of a Stage worker as it was constructed
Constructed(op) == Operator(op.kind, op.column, op.volume_col, op.window)

\* a batch of that shape without rows
EmptyBatch(shape) ==
    [schema  |-> [c \in 1..Len(shape.keys) |->
                     Field(shape.keys[c], shape.types[c], TRUE)],
     columns |-> [c \in 1..Len(shape.keys) |-> <<>>]]

\* C13: the output values an operator has produced over the batches it
\* processed, and its window state, are those of one pass over the
\* concatenated input values, wherever the batch boundaries fell; a batch
\* without rows adds no output and leaves the window state as it is.
OutputIndependentOfBatching ==
    \A w \in BuiltinStages :
        LET me  == workers[w]
            one == OpLoop(Constructed(me.op), me.seen.vals, me.seen.vols, <<>>)
        IN  /\ me.made = one.out
            /\ me.op = one.op
            /\ \A shape \in HarnessShapes :
                  LET r == process(me.op, EmptyBatch(shape))
                  IN  r.ok => /\ r.op = me.op
                              /\ r.batch.columns[Len(r.batch.columns)] = <<>>

\* an operator of window 2 fed batches of one row has produced a number for
\* its second row and read a third
BatchingWitness ==
    /\ batch_size = 1
    /\ \E w \in BuiltinStages :
          /\ workers[w].op.window = 2
          /\ Len(workers[w].made) = 3
          /\ ~IsNaN(workers[w].made[2])

\* the batches a batcher has emitted that are still about: the one it is
\* sending, those in its output channel and the one its receiver holds
EmittedAbout(w) ==
    LET tx == workers[w].tx
    IN  (IF workers[w].pc \in {"send", "finalsend"} THEN {workers[w].held[1]} ELSE {})
            \cup {chans[tx][i] : i \in 1..Len(chans[tx])}
            \cup {workers[t].held[1] :
                      t \in {u \in Threads : /\ workers[u].rx = tx
                                             /\ workers[u].kind # "Batcher"
                                             /\ workers[u].held # NoBatches}}

\* C14: the batches a batcher emits in a run all have one schema, that of
\* the first (a later row without one of its columns has a null there, and a
\* key that only later rows have is left out).
BatcherKeepsFirstSchema ==
    \A w \in {t \in Threads : workers[t].kind = "Batcher"} :
        \A a, b \in EmittedAbout(w) : a.schema = b.schema

\* the host transform workers
HostTransforms ==
    {w \in Threads : workers[w].kind = "PyTransform"}

\* C15: for each batch a host transform worker receives, every row is either
\* dropped or kept (the callable is called on each once), and the worker
\* forwards at most one batch: the kept rows in input order, or nothing at
\* all when no row is kept; no batch without rows is ever in a channel, and
\* the sink gets the surviving rows in their original order.
HostTransformForwardsSurvivors ==
    [][/\ \A w \in {t \in HostTransforms : t <= Len(workers')} :
            /\ (workers[w].pc = "attach" /\ workers'[w].pc # "attach") =>
                  /\ chans' = chans
                  /\ \/ /\ workers'[w].pc = "send"
                        /\ Len(workers'[w].held) = 1
                        /\ NumRows(workers'[w].held[1]) >= 1
                        /\ SurvivingRows(workers[w].held[1], workers'[w].held[1])
                        /\ NumRows(workers'[w].held[1]) + (hostDropped' - hostDropped)
                              = NumRows(workers[w].held[1])
                     \/ /\ workers'[w].pc = "recv"
                        /\ workers'[w].held = NoBatches
                        /\ hostDropped' - hostDropped = NumRows(workers[w].held[1])
            /\ (workers[w].pc = "send" /\ workers'[w].pc # "send") =>
                  /\ workers'[w].pc = "recv"
                  /\ \A k \in 1..Len(chans) :
                        \/ chans'[k] = chans[k]
                        \/ /\ k = workers[w].tx
                           /\ chans'[k] = Append(chans[k], workers[w].held[1])
       /\ \A k \in 1..Len(chans') : \A i \in 1..Len(chans'[k]) :
            NumRows(chans'[k][i]) >= 1
       /\ \A i, j \in 1..Len(delivered') : i < j => delivered'[i] < delivered'[j]]_vars

\* with batches of one row, the host transform between a row source and a
\* row sink dropped the first row, forwarding nothing, and the sink got the
\* second and the third
HostSurvivorsWitness ==
    /\ batch_size = 1
    /\ Len(registered) = 3
    /\ registered[1].kind = "Source"
    /\ registered[2].kind = "PyTransform"
    /\ registered[3].kind = "Sink"
    /\ hostDropped = 1
    /\ delivered = <<2, 3>>

\* the batcher threads
Batchers == {w \in Threads : workers[w].kind = "Batcher"}

\* the source rows in a batcher's buffer, in order
BufferIds(w) == [i \in 1..Len(workers[w].buffer) |-> RowId(workers[w].buffer[i])]

\* C16: a batch the batcher emits before its input closes has exactly
\* batch_size rows and the one it emits at the close has 1 to batch_size; a
\* batch is the whole buffer in order, and the batcher ends with no row left
\* unsent, so that the batches emitted are the rows received.
BatcherEmitsExactBatches ==
    \A w \in Batchers :
        /\ workers[w].pc = "send" => NumRows(workers[w].held[1]) = batch_size
        /\ workers[w].pc = "finalsend" =>
              NumRows(workers[w].held[1]) \in 1..batch_size
        /\ workers[w].pc \in {"send", "finalsend"} =>
              BatchIds(workers[w].held[1]) = BufferIds(w)
        /\ workers[w].pc = "done" => workers[w].buffer = <<>>

\* C17: the batcher's buffer never holds more than batch_size rows, and it
\* holds fewer whenever the batcher waits for a further row.
BatcherBufferBounded ==
    \A w \in Batchers :
        /\ Len(workers[w].buffer) <= batch_size
        /\ workers[w].pc = "recv" => Len(workers[w].buffer) < batch_size

\* the wiring loop of run() has ended and run() has not been left
Wired == mainpc \in {"joining", "reattach"}

\* the threads that hold the sender, the receiver of batch channel k
SendersOf(k) == {w \in Threads : workers[w].tx = k}

ReceiversOf(k) == {w \in Threads : workers[w].rx = k}

\* C18: run() of a valid list of T transforms has T+1 batch channels, and a
\* row channel exactly when the source is a row source; it has spawned one
\* thread per stage and a batcher for a row source; channel 0 has the source
\* (its batcher) as only sender, transform k is the only receiver of channel
\* k-1 and the only sender of channel k, the sink is the only receiver of
\* channel T, the caller holds no sender; and no channel ever holds more
\* than capacity items.  (Channel k of the code is chans[k + 1].)
RunWiresOneChainOfChannels ==
    /\ \A k \in 1..Len(chans) : Len(chans[k]) <= capacity
    /\ Len(dict_chan) <= capacity
    /\ (ValidList(registered) /\ Wired) =>
          LET T   == Len(registered) - 2
              row == registered[1].kind = "Source"
              off == IF row THEN 1 ELSE 0
          IN  /\ Len(chans) = T + 1
              /\ Len(batch_senders) = T + 1 /\ Len(batch_receivers) = T + 1
              /\ dict_tx_opt = (IF row THEN "Taken" ELSE "None")
              /\ dict_rx_opt = (IF row THEN "Taken" ELSE "None")
              /\ Len(workers) = Len(registered) + off
              /\ workers[1].kind = registered[1].kind
              /\ row => workers[2].kind = "Batcher"
              /\ \A i \in 2..Len(registered) : workers[i + off].kind = registered[i].kind
              /\ SendersOf(1) = {1 + off}
              /\ \A k \in 1..T : ReceiversOf(k) = {k + 1 + off} /\ SendersOf(k + 1) = {k + 1 + off}
              /\ ReceiversOf(T + 1) = {Len(workers)}
              /\ \A k \in 1..(T + 1) : ~batch_senders[k] /\ ~batch_receivers[k]

\* a row source, a transform and a sink are wired and running, both batch
\* channels and the row channel are full
WiredWitness ==
    /\ ValidList(registered) /\ Len(registered) = 3
    /\ registered[1].kind = "Source"
    /\ mainpc = "joining"
    /\ Len(workers) = 4
    /\ Len(chans) = 2
    /\ Len(chans[1]) = capacity /\ Len(chans[2]) = capacity
    /\ Len(dict_chan) = capacity

\* C19: a callback that fails on a row does not end its worker nor the run.
\* The row sink calls its callback on every row of the batch, in order,
\* whichever rows it raised on, and goes on to the next batch; the host
\* transform drops the rows its callback failed on (or returned the
\* sentinel for), keeps every other row and goes on; neither step changes
\* the outcome of run(), and run() of a valid list reports an error only
\* when a thread other than these two has panicked.
CallbackFailureNotFatal ==
    [][/\ \A w \in {t \in Threads : t <= Len(workers')} :
            /\ (workers[w].kind = "Sink" /\ workers[w].pc = "attach"
                  /\ workers'[w].pc # "attach") =>
                  /\ workers'[w].pc = "recv"
                  /\ delivered' = delivered \o BatchIds(workers[w].held[1])
                  /\ \E raised \in SUBSET (1..NumRows(workers[w].held[1])) :
                        sinkFailed' = sinkFailed \o
                            SelectIdx(BatchIds(workers[w].held[1]), raised, 1)
                  /\ outcome' = outcome
            /\ (workers[w].kind = "PyTransform" /\ workers[w].pc = "attach"
                  /\ workers'[w].pc # "attach") =>
                  /\ workers'[w].pc \in {"send", "recv"}
                  /\ (IF workers'[w].pc = "send" THEN NumRows(workers'[w].held[1]) ELSE 0)
                        + (hostDropped' - hostDropped) = NumRows(workers[w].held[1])
                  /\ outcome' = outcome
       /\ (ValidList(registered') /\ mainpc' \in {"reattach", "ended"}
             /\ outcome' = "panicked") =>
            \E w \in 1..Len(workers') :
                /\ workers'[w].pc = "panicked"
                /\ workers'[w].kind \notin {"Sink", "PyTransform"}]_vars

\* run() of a row source, a host transform and a row sink has returned
\* normally: the host callback dropped the first row, the sink callback
\* raised on the second and was still called on the third
CallbackFailureWitness ==
    /\ mainpc = "ended" /\ outcome = "returned"
    /\ Len(registered) = 3
    /\ registered[1].kind = "Source"
    /\ registered[2].kind = "PyTransform"
    /\ registered[3].kind = "Sink"
    /\ hostDropped = 1
    /\ sinkFailed = <<2>>
    /\ delivered = <<2, 3>>

\* the stage is a built-in operator that reads a column no source row has
ReadsAbsentColumn(cfg) ==
    /\ cfg.kind = "Stage"
    /\ \A c \in 1..Len(FileKeys) : FileKeys[c] # cfg.op.column

\* C20: run() of a valid list with a built-in operator whose input column
\* is absent fails fatally whatever the source yields, also when it yields
\* nothing: it never returns normally, and no row reaches the sink.
AbsentColumnIsFatal ==
    (/\ ValidList(registered)
     /\ \E i \in 1..Len(registered) : ReadsAbsentColumn(registered[i])) =>
        /\ delivered = <<>>
        /\ ~(mainpc = "ended" /\ outcome = "returned")

\* the parquet sink threads
ParquetSinks == {w \in Threads : workers[w].kind = "ParquetSink"}

\* C21: the parquet sink creates its writer and its file on the first batch
\* it receives, with that batch's schema, and never again; it appends every
\* batch it takes, in arrival order; a batch of another schema than the
\* first ends the worker by a panic, with nothing written of it and no
\* footer; the writer is finalized once, when the input is closed and
\* drained; a worker that received no batch ends normally without writer or
\* file.
ParquetSinkWritesOneFile ==
    [][\A w \in {t \in ParquetSinks : t <= Len(workers')} :
          LET me    == workers[w]
              after == workers'[w]
              batch == Head(chans[me.rx])
          IN  /\ (me.pc = "recv" /\ Len(chans'[me.rx]) < Len(chans[me.rx])) =>
                    /\ chans'[me.rx] = Tail(chans[me.rx])
                    /\ IF me.writer = <<>>
                       THEN \/ /\ after.pc = "recv"
                               /\ after.writer = <<batch.schema>>
                               /\ after.file = "open"
                               /\ delivered' = delivered \o BatchIds(batch)
                            \/ /\ after.pc = "panicked"
                               /\ after.writer = <<>> /\ after.file = "none"
                               /\ delivered' = delivered
                       ELSE IF batch.schema = me.writer[1]
                       THEN /\ after.pc = "recv"
                            /\ after.writer = me.writer /\ after.file = "open"
                            /\ delivered' = delivered \o BatchIds(batch)
                       ELSE /\ after.pc = "panicked"
                            /\ after.file = "open"
                            /\ delivered' = delivered
              /\ (me.pc = "recv" /\ after.pc = "done") =>
                    /\ Closed(me.rx)
                    /\ delivered' = delivered
                    /\ after.file = (IF me.writer = <<>> THEN "none" ELSE "finalized")
              /\ me.pc # "recv" => after = me
              /\ after.file = "finalized" => after.pc = "done"
              /\ after.file = "none" <=> after.writer = <<>>]_vars

\* the Stage workers running an Ema
EmaStages == {w \in BuiltinStages : workers[w].op.kind = "Ema"}

\* the smoothing factor of an Ema of that span
Alpha(span) == FDiv(F(2), F(span + 1))

\* C22: over the lifetime of an Ema there is one output per input row; the
\* smoothed state is absent exactly while no row has been processed; the
\* first output is the first input; every later output, the first of a
\* later batch included, is alpha * input + (1 - alpha) * previous output,
\* and the state is the last output.
EmaSeedsOnceThenSmooths ==
    \A w \in EmaStages :
        LET me == workers[w]
            in == me.seen.vals
            a  == Alpha(me.op.window)
        IN  /\ Len(me.made) = Len(in)
            /\ me.op.current = None <=> in = <<>>
            /\ in # <<>> => /\ me.made[1] = in[1]
                            /\ me.op.current = Some(me.made[Len(me.made)])
            /\ \A i \in 2..Len(me.made) :
                  me.made[i] = FAdd(FMul(a, in[i]), FMul(FSub(F(1), a), me.made[i - 1]))

\* an Ema of span 2 fed batches of one row has smoothed the only row of its
\* second and of its third batch against the value carried over
EmaWitness ==
    /\ batch_size = 1
    /\ \E w \in EmaStages :
          /\ workers[w].op.window = 2
          /\ Len(workers[w].made) = 3
          /\ workers[w].made[2] # workers[w].seen.vals[2]
          /\ workers[w].made[3] # workers[w].seen.vals[3]

\* run() has ended by a panic of its wiring loop: fewer stages have got
\* their thread than were listed (a batcher comes with its source)
WiringFailed ==
    /\ mainpc = "ended" /\ outcome = "panicked"
    /\ Cardinality({w \in Threads : workers[w].kind # "Batcher"}) < Len(registered)

\* C23: when run() has failed on its stage list, no thread has been spawned:
\* no row has been requested from the source, no sink has been given a row,
\* no output file exists and no thread is running.
InvalidListFailsBeforeSpawning ==
    WiringFailed =>
        /\ workers = <<>>
        /\ emitted = <<>>
        /\ delivered = <<>>

\* the row source threads
RowSources == {w \in Threads : workers[w].kind = "Source"}

\* C24: the row source thread calls the factory once; each request gives
\* one row, which is sent once, in order, before the next request, or fails
\* and ends the thread normally, whatever the failure; a send that fails
\* because the receiver is gone is followed by the next request; no step of
\* the thread after the factory call changes the outcome of run().
RowSourceSendsEachRowOnce ==
    [][\A w \in {t \in RowSources : t <= Len(workers')} :
          LET me    == workers[w]
              after == workers'[w]
          IN  /\ me.pc # "factory" => after.pc # "factory"
              /\ (me.pc = "factory" /\ after # me) => after.pc \in {"next", "panicked"}
              /\ (me.pc = "next" /\ after # me) =>
                    /\ outcome' = outcome
                    /\ dict_chan' = dict_chan
                    /\ \/ /\ after.pc = "send"
                          /\ Len(after.buffer) = 1
                          /\ emitted' = Append(emitted, RowId(after.buffer[1]))
                          /\ \A i \in 1..Len(emitted) : emitted[i] < RowId(after.buffer[1])
                       \/ /\ after.pc = "done"
                          /\ emitted' = emitted
              /\ (me.pc = "send" /\ after # me) =>
                    /\ outcome' = outcome
                    /\ emitted' = emitted
                    /\ after.pc = "next" /\ after.buffer = <<>>
                    /\ \/ dict_chan' = Append(dict_chan, me.buffer[1])
                       \/ ~DictReceiverAlive /\ dict_chan' = dict_chan
              /\ me.pc \in {"done", "panicked"} => after = me]_vars

\* the iterator of a row source failed after two rows: the source thread
\* ended normally, both rows reached the sink and run() returned
RowSourceWitness ==
    /\ mainpc = "ended" /\ outcome = "returned"
    /\ \E w \in RowSources : workers[w].pc = "done"
    /\ Len(emitted) = 2 /\ Len(emitted) < row_limit
    /\ delivered = <<1, 2>>

=============================================================================
